---- MODULE Spec2Model ----
(***************************************************************************)
(* Model of import_fraud_to_neo4j.py: a script that loads CSV tables into  *)
(* a Neo4j store, derives SHARED_IDENTIFIERS edges between Clients and     *)
(* runs a final fraud analysis.  The store is a property graph: a set of   *)
(* nodes, a set of relationships, node attributes.  Each Cypher query of   *)
(* the script is an operator computing the store after the query.          *)
(***************************************************************************)
EXTENDS Integers, Sequences, FiniteSets, TLC

\* ------------------------------------------------------------------ bounds
\* Client ids that clients.csv and the client_has_* tables may mention.
MaxClients == 3
\* Rows of client_has_ssn.csv, client_has_phone.csv and client_has_email.csv
\* taken together.
MaxRows == 5
\* HAS_* relationships in the store when the queries are run again, one
\* row at a time, on an imported store (SpecQueries).
MaxMerged == 4
\* Rows of transactions.csv.
NumTx == 3
\* batch_size of STEP 13 (500 in the source), scaled down with NumTx.
batch_size == 2

\* --------------------------------------------------------------- constants
\* The weights of the CASE in STEP 21, in tenths (1.0, 1.5, 5.0).
W_EMAIL == 10
W_PHONE == 15
W_SSN == 50

ClientIds == 1..MaxClients
SsnIds == {1, 2}
PhoneIds == {1}
EmailIds == {1}

\* The absent value of Cypher (null) and of Python (None), and a present one.
NULL == <<>>
Some(v) == <<v>>

\* A node: its first label, its id property and its clientId property
\* (Transaction and Mule nodes carry one; NULL on the others).
NodeOf(label, id, clientId) == [label |-> label, id |-> id, clientId |-> clientId]
Node(label, id) == NodeOf(label, id, NULL)

\* A relationship; props is <<>> or <<count, weight>>.
Rel(type, src, dst, props) == [type |-> type, src |-> src, dst |-> dst, props |-> props]

HasTypes == {"HAS_EMAIL", "HAS_PHONE", "HAS_SSN"}

VARIABLES
    pc,             \* the step the script is about to run
    nodes,          \* the nodes of the store
    nid,            \* id(n): the store's internal id of each node
    rels,           \* the relationships of the store
    out_degree,     \* n.out_degree, for the nodes that carry it
    in_degree,      \* n.in_degree, for the nodes that carry it
    constraints,    \* labels with a uniqueness constraint
    i,              \* STEP 13: offset of the next batch
    printed,        \* the counts the script has printed, by name
    lastQuery,      \* the last query run against the store
    response        \* STEP 3: what the operator typed at the prompt, if asked

vars == <<pc, nodes, nid, rels, out_degree, in_degree, constraints, i, printed, lastQuery, response>>

\* ------------------------------------------------------------- the inputs
RECURSIVE SeqOfSet(_)
SeqOfSet(S) ==
    IF S = {} THEN <<>>
    ELSE LET m == CHOOSE x \in S : \A y \in S : x <= y
         IN <<m>> \o SeqOfSet(S \ {m})

Reverse(s) == [k \in 1..Len(s) |-> s[Len(s) + 1 - k]]

\* clients.csv: every client id in ascending or descending order, or the
\* table without its last client (rows of other tables may still name it).
ClientsCsvChoices ==
    { SeqOfSet(ClientIds), Reverse(SeqOfSet(ClientIds)), SeqOfSet(ClientIds \ {MaxClients}) }

BanksCsv == <<1>>
SsnsCsv == SeqOfSet(SsnIds)
PhonesCsv == SeqOfSet(PhoneIds)
EmailsCsv == SeqOfSet(EmailIds)
MerchantsCsv == <<1>>
\* mules.csv and transactions.csv: each row names a client.
MulesCsv == << [mule_id |-> 1, client_id |-> 1] >>
TransactionsCsv ==
    [k \in 1..NumTx |-> [transaction_id |-> k, client_id |-> ((k - 1) % MaxClients) + 1]]

\* A client_has_* table: a set of rows (client_id, identifier id).
HasRows(ids) == SUBSET (ClientIds \X ids)

\* The answers the operator may type at the prompt of STEP 3, and str.lower().
Responses == {"yes", "YES", "no", ""}

\* Mutant of Lower: the answer compared as typed.
Lower_AsTyped(s) == s

\* response.lower(), on the answers above.
Lower(s) == IF s = "YES" THEN "yes" ELSE s

\* ------------------------------------------------------------ the queries
Max(S) == CHOOSE x \in S : \A y \in S : y <= x

\* MATCH (n:label {id: id})
Match(label, id) == {n \in nodes : n.label = label /\ n.id = id}

\* UNWIND $rows AS row CREATE (:label {id: ..., clientId: ...}): the nodes made
\* from the rows, and id() of every node afterwards (ids in creation order).
CreatedNodes(rows) == {rows[k] : k \in 1..Len(rows)}
NidAfterCreate(rows) ==
    [n \in nodes \cup CreatedNodes(rows) |->
        IF n \in nodes THEN nid[n]
        ELSE Cardinality(nodes) + (CHOOSE k \in 1..Len(rows) : rows[k] = n)]

\* STEP 14-16: UNWIND $rels AS rel MATCH (c:Client {id: rel.client_id})
\* MATCH (s:label {id: rel.x_id}) MERGE (c)-[:type]->(s).  The relationships
\* of the store after the query.
CreateHas(type, label, rows) ==
    rels \cup { Rel(type, m[1], m[2], <<>>) :
                m \in UNION { Match("Client", r[1]) \X Match(label, r[2]) : r \in rows } }

\* STEP 17, 18: MATCH (t:label) MATCH (c:Client {id: t.clientId})
\* MERGE (c)-[:type]->(t).  ByClientId: the relationships the pattern asks
\* for over the nodes N.
ByClientId(N, type, label) ==
    { Rel(type, m[1], m[2], <<>>) :
        m \in { p \in N \X N :
                  /\ p[1].label = "Client"
                  /\ p[2].label = label
                  /\ p[2].clientId = Some(p[1].id) } }

CreateByClientId(type, label) == rels \cup ByClientId(nodes, type, label)

\* Mutant of OutCount: only the HAS_* relationships are counted.
OutCount_HasOnly(n) ==
    Cardinality({r \in rels : r.src = n /\ r.type \in {"HAS_EMAIL", "HAS_PHONE", "HAS_SSN"}})

\* STEP 20: COUNT { (n)-->() } and COUNT { (n)<--() }
OutCount(n) == Cardinality({r \in rels : r.src = n})
InCount(n) == Cardinality({r \in rels : r.dst = n})

\* STEP 21.  The rows of
\*   MATCH (c1:Client)-[r:HAS_EMAIL|HAS_PHONE|HAS_SSN]->(n)
\*         <-[r2:HAS_EMAIL|HAS_PHONE|HAS_SSN]-(c2:Client)
\*   WHERE id(c1) < id(c2)
\* as pairs (r, r2); one pattern never binds a relationship twice.
HasRels == {r \in rels : r.type \in HasTypes}
CoHeld ==
    { p \in HasRels \X HasRels :
        /\ p[1] # p[2]
        /\ p[1].dst = p[2].dst
        /\ p[1].src.label = "Client"
        /\ p[2].src.label = "Client"
        /\ nid[p[1].src] < nid[p[2].src] }

\* Mutant of WeightOf: a phone weighs what an email does.
WeightOf_PhoneAsEmail(p) ==
    CASE p[1].type = "HAS_EMAIL" -> W_EMAIL
      [] p[1].type = "HAS_PHONE" -> W_EMAIL
      [] p[1].type = "HAS_SSN" -> W_SSN
      [] OTHER -> 0

\* CASE WHEN type(r) = 'HAS_EMAIL' THEN 1.0 ... ELSE 0 END
WeightOf(p) ==
    CASE p[1].type = "HAS_EMAIL" -> W_EMAIL
      [] p[1].type = "HAS_PHONE" -> W_PHONE
      [] p[1].type = "HAS_SSN" -> W_SSN
      [] OTHER -> 0

\* SUM(CASE ...) over a group's rows
RECURSIVE SumWeights(_)
SumWeights(S) ==
    IF S = {} THEN 0
    ELSE LET x == CHOOSE y \in S : TRUE
         IN WeightOf(x) + SumWeights(S \ {x})

\* WITH c1, c2, count(*) as cnt, SUM(CASE ...) AS weight: one record per group.
RowsOf(c1, c2) == {p \in CoHeld : p[1].src = c1 /\ p[2].src = c2}
Groups ==
    { [c1 |-> g[1], c2 |-> g[2],
       cnt |-> Cardinality(RowsOf(g[1], g[2])),
       weight |-> SumWeights(RowsOf(g[1], g[2]))] :
      g \in { <<p[1].src, p[2].src>> : p \in CoHeld } }

\* Mutant of MergeShared: a pair's edge is matched by its endpoints and the
\* group's count and weight are added to it.
MergeShared_Additive ==
    LET old(g) == {r \in rels : /\ r.type = "SHARED_IDENTIFIERS"
                                 /\ r.src = g.c1
                                 /\ r.dst = g.c2}
        new(g) == IF old(g) = {}
                  THEN Rel("SHARED_IDENTIFIERS", g.c1, g.c2, <<g.cnt, g.weight>>)
                  ELSE LET e == CHOOSE r \in old(g) : TRUE
                       IN Rel("SHARED_IDENTIFIERS", g.c1, g.c2,
                              <<e.props[1] + g.cnt, e.props[2] + g.weight>>)
    IN (rels \ UNION {old(g) : g \in Groups}) \cup {new(g) : g \in Groups}

\* MERGE (c1)-[:SHARED_IDENTIFIERS {count: cnt, weight: weight}]->(c2): a
\* relationship with these endpoints and exactly these properties is matched,
\* otherwise one is created.
MergeShared ==
    rels \cup { Rel("SHARED_IDENTIFIERS", g.c1, g.c2, <<g.cnt, g.weight>>) : g \in Groups }

\* STEP 22, first query.  MATCH (s:SSN)<-[:HAS_SSN]-(c:Client)
\* WITH s, count(c) as client_count WHERE client_count > 1
\* RETURN count(s) as shared_ssns, max(client_count) as max_clients
ClientCount(s) ==
    Cardinality({r \in rels : r.type = "HAS_SSN" /\ r.dst = s /\ r.src.label = "Client"})
\* Mutant of SharedSsnRows: WHERE client_count >= 1.
SharedSsnRows_AtLeastOne == {s \in nodes : s.label = "SSN" /\ ClientCount(s) >= 1}

SharedSsnRows == {s \in nodes : s.label = "SSN" /\ ClientCount(s) > 1}
SharedSsns == Cardinality(SharedSsnRows)
MaxClientsPerSsn ==
    IF SharedSsnRows = {} THEN NULL
    ELSE Some(Max({ClientCount(s) : s \in SharedSsnRows}))

\* STEP 22, second query.  MATCH ()-[r:SHARED_IDENTIFIERS]->() RETURN count(r)
SharedRels == {r \in rels : r.type = "SHARED_IDENTIFIERS"}
FraudConnections == Cardinality(SharedRels)

\* STEP 22, third query.  (c)-[:SHARED_IDENTIFIERS*]-(connected): the end
\* nodes of the paths of one or more relationships from n, in either
\* direction, that use no relationship twice and none of used.
RECURSIVE PathEnds(_, _)
PathEnds(n, used) ==
    UNION { LET m == IF r.src = n THEN r.dst ELSE r.src
            IN {m} \cup PathEnds(m, used \cup {r}) :
            r \in {q \in SharedRels \ used : q.src = n \/ q.dst = n} }

\* Mutant of Connected: the pattern without its *, paths of one relationship.
Connected_OneHop(c) ==
    {m \in nodes : /\ m.label = "Client"
                   /\ \E r \in SharedRels :
                         (r.src = c /\ r.dst = m) \/ (r.dst = c /\ r.src = m)}

Connected(c) == {m \in PathEnds(c, {}) : m.label = "Client"}

\* WITH c, collect(DISTINCT connected) + [c] as fraud_ring: one row per
\* Client with at least one path; the list's elements and its length.
RingRows == {c \in nodes : c.label = "Client" /\ Connected(c) # {}}
FraudRingMembers(c) == Connected(c) \cup {c}
FraudRingSize(c) == Cardinality(Connected(c)) + 1

\* RETURN max(size(fraud_ring)) as largest_ring_size: null over no rows.
LargestRingSize ==
    IF RingRows = {} THEN NULL
    ELSE Some(Max({FraudRingSize(c) : c \in RingRows}))

\* ------------------------------------------------------------- the script
EmptyFn == [n \in {} |-> 0]

InitPrinted ==
    [has_ssn |-> 0, has_phone |-> 0, has_email |-> 0, performed |-> 0, flagged |-> 0,
     total_nodes |-> 0, total_rels |-> 0, nodes_updated |-> 0, relationships_created |-> 0,
     shared_ssns |-> 0, max_clients |-> NULL, fraud_conn |-> 0, ring_size |-> NULL]

ConstraintLabels ==
    {"Client", "SSN", "Phone", "Email", "Merchant", "Bank", "Transaction", "Mule"}

Init ==
    /\ pc = "step1"
    /\ nodes = {}
    /\ nid = EmptyFn
    /\ rels = {}
    /\ out_degree = EmptyFn
    /\ in_degree = EmptyFn
    /\ constraints = {}
    /\ i = 0
    /\ printed = InitPrinted
    /\ lastQuery = "none"
    /\ response = NULL

\* STEP 1: NEO4J_URI and NEO4J_PASSWORD must be set, or ValueError.
Step1 ==
    /\ pc = "step1"
    /\ \E present \in BOOLEAN : pc' = IF present THEN "step2" ELSE "error"
    /\ UNCHANGED <<response, nodes, nid, rels, out_degree, in_degree, constraints, i, printed, lastQuery>>

\* STEP 2: connect and RETURN 1, or exit(1).
Step2 ==
    /\ pc = "step2"
    /\ \E connected \in BOOLEAN : pc' = IF connected THEN "step3" ELSE "exit1"
    /\ UNCHANGED <<response, nodes, nid, rels, out_degree, in_degree, constraints, i, printed, lastQuery>>

\* STEP 3: count the nodes; on a store that holds some, ask, and either
\* MATCH (n) DETACH DELETE n or exit(0).
Step3 ==
    /\ pc = "step3"
    /\ IF Cardinality(nodes) > 0
       THEN \E r \in Responses :
              /\ response' = Some(r)
              /\ IF Lower(r) = "yes"
                 THEN /\ nodes' = {}
                      /\ nid' = EmptyFn
                      /\ rels' = {}
                      /\ out_degree' = EmptyFn
                      /\ in_degree' = EmptyFn
                      /\ lastQuery' = "delete"
                      /\ pc' = "step4"
                 ELSE /\ pc' = "cancelled"
                      /\ UNCHANGED <<nodes, nid, rels, out_degree, in_degree, lastQuery>>
       ELSE /\ pc' = "step4"
            /\ UNCHANGED <<response, nodes, nid, rels, out_degree, in_degree, lastQuery>>
    /\ UNCHANGED <<constraints, i, printed>>

\* STEP 4: CREATE CONSTRAINT ... IF NOT EXISTS, for each label.
Step4 ==
    /\ pc = "step4"
    /\ constraints' = constraints \cup ConstraintLabels
    /\ pc' = "step5"
    /\ UNCHANGED <<response, nodes, nid, rels, out_degree, in_degree, i, printed, lastQuery>>

\* STEP 5: every CSV file must exist, or exit(1).
Step5 ==
    /\ pc = "step5"
    /\ \E found \in BOOLEAN : pc' = IF found THEN "step6" ELSE "exit1"
    /\ UNCHANGED <<response, nodes, nid, rels, out_degree, in_degree, constraints, i, printed, lastQuery>>

\* session.execute_write(create_xxx, rows): UNWIND ... CREATE
Create(rows) ==
    /\ nodes' = nodes \cup CreatedNodes(rows)
    /\ nid' = NidAfterCreate(rows)
    /\ lastQuery' = "create"
    /\ UNCHANGED <<response, rels, out_degree, in_degree, constraints, printed>>

NodesOf(label, ids) == [k \in 1..Len(ids) |-> Node(label, ids[k])]

Step6 == pc = "step6" /\ Create(NodesOf("Bank", BanksCsv)) /\ pc' = "step7" /\ UNCHANGED i

Step7 ==
    /\ pc = "step7"
    /\ \E clients \in ClientsCsvChoices : Create(NodesOf("Client", clients))
    /\ pc' = "step8"
    /\ UNCHANGED i

Step8 == pc = "step8" /\ Create(NodesOf("SSN", SsnsCsv)) /\ pc' = "step9" /\ UNCHANGED i

Step9 == pc = "step9" /\ Create(NodesOf("Phone", PhonesCsv)) /\ pc' = "step10" /\ UNCHANGED i

Step10 == pc = "step10" /\ Create(NodesOf("Email", EmailsCsv)) /\ pc' = "step11" /\ UNCHANGED i

Step11 == pc = "step11" /\ Create(NodesOf("Merchant", MerchantsCsv)) /\ pc' = "step12" /\ UNCHANGED i

Step12 ==
    /\ pc = "step12"
    /\ Create([k \in 1..Len(MulesCsv) |->
                 NodeOf("Mule", MulesCsv[k].mule_id, Some(MulesCsv[k].client_id))])
    /\ pc' = "step13"
    /\ UNCHANGED i

\* STEP 13: for i in range(0, len(transactions_list), batch_size), one
\* execute_write per batch.
transactions_list ==
    [k \in 1..Len(TransactionsCsv) |->
        NodeOf("Transaction", TransactionsCsv[k].transaction_id,
               Some(TransactionsCsv[k].client_id))]

Min(a, b) == IF a < b THEN a ELSE b

Step13 ==
    /\ pc = "step13"
    /\ IF i < Len(transactions_list)
       THEN /\ Create(SubSeq(transactions_list, i + 1,
                             Min(i + batch_size, Len(transactions_list))))
            /\ i' = i + batch_size
            /\ pc' = "step13"
       ELSE /\ pc' = "step14"
            /\ UNCHANGED <<response, nodes, nid, rels, out_degree, in_degree, constraints,
                           i, printed, lastQuery>>

\* The write of a batch raises: nothing catches it, the script ends.
Step13Fails ==
    /\ pc = "step13"
    /\ i < Len(transactions_list)
    /\ pc' = "failed"
    /\ UNCHANGED <<response, nodes, nid, rels, out_degree, in_degree, constraints, i, printed, lastQuery>>

\* The operator starts the script again on the same store.
Rerun ==
    /\ pc = "failed"
    /\ pc' = "step1"
    /\ i' = 0
    /\ printed' = InitPrinted
    /\ response' = NULL
    /\ UNCHANGED <<nodes, nid, rels, out_degree, in_degree, constraints, lastQuery>>

\* STEP 14-16: the query on one table.
RunHasSsn(rows) ==
    /\ rels' = CreateHas("HAS_SSN", "SSN", rows)
    /\ lastQuery' = "has"
    /\ UNCHANGED <<response, nodes, nid, out_degree, in_degree, constraints, i>>

RunHasPhone(rows) ==
    /\ rels' = CreateHas("HAS_PHONE", "Phone", rows)
    /\ lastQuery' = "has"
    /\ UNCHANGED <<response, nodes, nid, out_degree, in_degree, constraints, i>>

RunHasEmail(rows) ==
    /\ rels' = CreateHas("HAS_EMAIL", "Email", rows)
    /\ lastQuery' = "has"
    /\ UNCHANGED <<response, nodes, nid, out_degree, in_degree, constraints, i>>

\* STEP 14-16: the query, then the print of len(table).
Step14 ==
    /\ pc = "step14"
    /\ \E rows \in HasRows(SsnIds) :
          /\ Cardinality(rows) <= MaxRows
          /\ RunHasSsn(rows)
          /\ printed' = [printed EXCEPT !.has_ssn = Cardinality(rows)]
    /\ pc' = "step15"

Step15 ==
    /\ pc = "step15"
    /\ \E rows \in HasRows(PhoneIds) :
          /\ printed.has_ssn + Cardinality(rows) <= MaxRows
          /\ RunHasPhone(rows)
          /\ printed' = [printed EXCEPT !.has_phone = Cardinality(rows)]
    /\ pc' = "step16"

Step16 ==
    /\ pc = "step16"
    /\ \E rows \in HasRows(EmailIds) :
          /\ printed.has_ssn + printed.has_phone + Cardinality(rows) <= MaxRows
          /\ RunHasEmail(rows)
          /\ printed' = [printed EXCEPT !.has_email = Cardinality(rows)]
    /\ pc' = "step17"

\* STEP 17, 18: the query, then the count of the relationships of the type.
CountType(R, type) == Cardinality({r \in R : r.type = type})

Step17 ==
    /\ pc = "step17"
    /\ rels' = CreateByClientId("PERFORMED", "Transaction")
    /\ printed' = [printed EXCEPT !.performed = CountType(rels', "PERFORMED")]
    /\ lastQuery' = "performed"
    /\ pc' = "step18"
    /\ UNCHANGED <<response, nodes, nid, out_degree, in_degree, constraints, i>>

Step18 ==
    /\ pc = "step18"
    /\ rels' = CreateByClientId("FLAGGED_AS", "Mule")
    /\ printed' = [printed EXCEPT !.flagged = CountType(rels', "FLAGGED_AS")]
    /\ lastQuery' = "flagged"
    /\ pc' = "step19"
    /\ UNCHANGED <<response, nodes, nid, out_degree, in_degree, constraints, i>>

\* STEP 19: the node and relationship counts by type, summed.
Step19 ==
    /\ pc = "step19"
    /\ printed' = [printed EXCEPT !.total_nodes = Cardinality(nodes),
                                  !.total_rels = Cardinality(rels)]
    /\ lastQuery' = "verify"
    /\ pc' = "step20"
    /\ UNCHANGED <<response, nodes, nid, rels, out_degree, in_degree, constraints, i>>

\* STEP 20: MATCH (n) ... SET n.out_degree = out_degree, n.in_degree = in_degree;
\* the script then prints count(n) as nodes_updated.
RunDegrees ==
    /\ out_degree' = [n \in nodes |-> OutCount(n)]
    /\ in_degree' = [n \in nodes |-> InCount(n)]
    /\ lastQuery' = "degrees"
    /\ UNCHANGED <<response, nodes, nid, rels, constraints, i>>

\* Mutant of Step20: the annotation counts the SHARED_IDENTIFIERS
\* relationships of STEP 21 as well, as if it ran after the build.
Step20_AfterBuild ==
    /\ pc = "step20"
    /\ out_degree' = [n \in nodes |-> Cardinality({r \in MergeShared : r.src = n})]
    /\ in_degree' = [n \in nodes |-> Cardinality({r \in MergeShared : r.dst = n})]
    /\ lastQuery' = "degrees"
    /\ printed' = [printed EXCEPT !.nodes_updated = Cardinality(nodes)]
    /\ pc' = "step21"
    /\ UNCHANGED <<response, nodes, nid, rels, constraints, i>>

Step20 ==
    /\ pc = "step20"
    /\ RunDegrees
    /\ printed' = [printed EXCEPT !.nodes_updated = Cardinality(nodes)]
    /\ pc' = "step21"

\* STEP 21: the query; the script then prints
\* summary.counters.relationships_created.
RunSharedIdentifiers ==
    /\ rels' = MergeShared
    /\ lastQuery' = "shared"
    /\ UNCHANGED <<response, nodes, nid, out_degree, in_degree, constraints, i>>

Step21 ==
    /\ pc = "step21"
    /\ RunSharedIdentifiers
    /\ printed' = [printed EXCEPT !.relationships_created = Cardinality(MergeShared \ rels)]
    /\ pc' = "step22"

\* STEP 22: the three read queries of the final analysis.
RunAnalysis ==
    /\ printed' = [printed EXCEPT !.shared_ssns = SharedSsns,
                                  !.max_clients = MaxClientsPerSsn,
                                  !.fraud_conn = FraudConnections,
                                  !.ring_size = LargestRingSize]
    /\ lastQuery' = "analysis"
    /\ UNCHANGED <<response, nodes, nid, rels, out_degree, in_degree, constraints, i>>

Step22 == pc = "step22" /\ RunAnalysis /\ pc' = "done"

Next ==
    \/ Step1 \/ Step2 \/ Step3 \/ Step4 \/ Step5 \/ Step6 \/ Step7 \/ Step8 \/ Step9 \/ Step10
    \/ Step11 \/ Step12 \/ Step13 \/ Step13Fails \/ Rerun
    \/ Step14 \/ Step15 \/ Step16 \/ Step17 \/ Step18 \/ Step19
    \/ Step20 \/ Step21 \/ Step22

Spec == Init /\ [][Next]_vars

\* ------------------------------------------- the queries, run again
\* The store after STEP 6-13, 17 and 18 (clients.csv holding every client, no
\* client_has_* row yet), on which
\* the queries of STEP 14-16, 20 and 21 are then run in any order, the
\* tables of STEP 14-16 holding one row.
ImportOrder(clients) ==
    NodesOf("Bank", BanksCsv) \o NodesOf("Client", clients) \o NodesOf("SSN", SsnsCsv)
    \o NodesOf("Phone", PhonesCsv) \o NodesOf("Email", EmailsCsv)
    \o NodesOf("Merchant", MerchantsCsv)
    \o [k \in 1..Len(MulesCsv) |->
          NodeOf("Mule", MulesCsv[k].mule_id, Some(MulesCsv[k].client_id))]
    \o transactions_list

InitQueries ==
    /\ pc = "queries"
    /\ \E clients \in {SeqOfSet(ClientIds)} :
          /\ nodes = CreatedNodes(ImportOrder(clients))
          /\ nid = [n \in CreatedNodes(ImportOrder(clients)) |->
                     (CHOOSE k \in 1..Len(ImportOrder(clients)) :
                        ImportOrder(clients)[k] = n) - 1]
    /\ rels = ByClientId(nodes, "PERFORMED", "Transaction")
                \cup ByClientId(nodes, "FLAGGED_AS", "Mule")
    /\ out_degree = EmptyFn
    /\ in_degree = EmptyFn
    /\ constraints = ConstraintLabels
    /\ i = 0
    /\ printed = InitPrinted
    /\ lastQuery = "none"
    /\ response = NULL

\* The one-row tables: any client with the first identifier of a type.
QueryRows(ids) == ClientIds \X {CHOOSE x \in ids : \A y \in ids : x <= y}

\* The HAS_* relationships among R.
CountHas(R) == Cardinality({r \in R : r.type \in HasTypes})

QHasSsn ==
    /\ pc = "queries"
    /\ \E row \in QueryRows(SsnIds) :
          /\ CountHas(CreateHas("HAS_SSN", "SSN", {row})) <= MaxMerged
          /\ RunHasSsn({row})
    /\ UNCHANGED <<pc, printed>>

QHasPhone ==
    /\ pc = "queries"
    /\ \E row \in QueryRows(PhoneIds) :
          /\ CountHas(CreateHas("HAS_PHONE", "Phone", {row})) <= MaxMerged
          /\ RunHasPhone({row})
    /\ UNCHANGED <<pc, printed>>

QHasEmail ==
    /\ pc = "queries"
    /\ \E row \in QueryRows(EmailIds) :
          /\ CountHas(CreateHas("HAS_EMAIL", "Email", {row})) <= MaxMerged
          /\ RunHasEmail({row})
    /\ UNCHANGED <<pc, printed>>

QDegrees == pc = "queries" /\ RunDegrees /\ UNCHANGED <<pc, printed>>

QSharedIdentifiers == pc = "queries" /\ RunSharedIdentifiers /\ UNCHANGED <<pc, printed>>

NextQueries == QHasSsn \/ QHasPhone \/ QHasEmail \/ QDegrees \/ QSharedIdentifiers

SpecQueries == InitQueries /\ [][NextQueries]_vars

\* ---------------------------------------------------------------- claims
Clients == {n \in nodes : n.label = "Client"}
Identifiers == {n \in nodes : n.label \in {"SSN", "Phone", "Email"}}

\* c holds identifier n: a HAS_SSN, HAS_PHONE or HAS_EMAIL relationship c -> n.
Holds(c, n) == \E r \in rels : r.type \in HasTypes /\ r.src = c /\ r.dst = n
Holders(n) == {c \in Clients : Holds(c, n)}
CommonIds(a, b) == {n \in Identifiers : Holds(a, n) /\ Holds(b, n)}
Shares(a, b) == a # b /\ CommonIds(a, b) # {}

\* 1.0 per email, 1.5 per phone and 5.0 per SSN, in tenths.
ExpectedWeight(S) ==
    W_EMAIL * Cardinality({n \in S : n.label = "Email"})
    + W_PHONE * Cardinality({n \in S : n.label = "Phone"})
    + W_SSN * Cardinality({n \in S : n.label = "SSN"})

\* The SHARED_IDENTIFIERS relationships between a and b, in either direction.
Between(a, b) == {r \in SharedRels : {r.src, r.dst} = {a, b}}

\* STEP 21 has run once, on a store that held no SHARED_IDENTIFIERS edge.
BuiltOnce == pc \in {"step22", "done"}

\* C1: after STEP 21 has run once on a graph without SHARED_IDENTIFIERS edges,
\* every pair of distinct Clients has exactly one such edge if the two hold a
\* common identifier node and none otherwise; the edge's count is the number
\* of identifier nodes they co-hold and its weight the sum of 1.0 per email,
\* 1.5 per phone and 5.0 per SSN among them; no Client has an edge to itself.
C1_OneEdgePerSharingPair ==
    BuiltOnce =>
        /\ \A r \in SharedRels : r.src # r.dst /\ r.src \in Clients /\ r.dst \in Clients
        /\ \A a \in Clients : \A b \in Clients \ {a} :
              IF CommonIds(a, b) = {}
              THEN Between(a, b) = {}
              ELSE /\ Cardinality(Between(a, b)) = 1
                   /\ \A r \in Between(a, b) :
                         r.props = << Cardinality(CommonIds(a, b)),
                                      ExpectedWeight(CommonIds(a, b)) >>

\* C1 witness: after the build, two Clients share one SSN and one phone
\* (count 2, weight 6.5) and some identifier is held by a single Client.
C1_Witness ==
    /\ BuiltOnce
    /\ \E r \in SharedRels :
          /\ r.props = <<2, 65>>
          /\ {n.label : n \in CommonIds(r.src, r.dst)} = {"SSN", "Phone"}
    /\ \E n \in Identifiers : Cardinality(Holders(n)) = 1

\* The connected component of c in the undirected SHARED_IDENTIFIERS graph.
RECURSIVE Closure(_)
Closure(S) ==
    LET T == S \cup {r.dst : r \in {q \in SharedRels : q.src \in S}}
                \cup {r.src : r \in {q \in SharedRels : q.dst \in S}}
    IN IF T = S THEN S ELSE Closure(T)

Component(c) == Closure({c})

\* C2: with at least one SHARED_IDENTIFIERS edge, the largest-ring size the
\* final analysis reports is the number of distinct Clients in the largest
\* connected component of the SHARED_IDENTIFIERS graph.
C2_RingSizeIsLargestComponent ==
    (pc = "done" /\ SharedRels # {}) =>
        printed.ring_size = Some(Max({Cardinality(Component(c)) : c \in Clients}))

\* C3: with at least one Client and no SHARED_IDENTIFIERS edge, the
\* largest-ring-size query returns 1.
C3_NoEdgeRingSizeOne ==
    (pc = "done" /\ Clients # {} /\ SharedRels = {}) => printed.ring_size = Some(1)

\* C4: however the queries of STEP 14-16 and the build query of STEP 21 are
\* interleaved, there is at most one SHARED_IDENTIFIERS edge per pair of
\* Clients, with count >= 1 and weight > 0.
C4_AtMostOneEdgePerPair ==
    /\ \A a \in Clients : \A b \in Clients \ {a} : Cardinality(Between(a, b)) <= 1
    /\ \A r \in SharedRels : r.props[1] >= 1 /\ r.props[2] > 0

\* C5: in the state the build query of STEP 21 leaves, running it again
\* creates no edge and changes no count or weight: the relationships after
\* the second run are those after the first.
C5_SecondBuildChangesNothing ==
    lastQuery = "shared" => MergeShared = rels

\* C5 witness: the build query has just run and the store holds
\* SHARED_IDENTIFIERS edges, one of them of count 2.
C5_Witness ==
    /\ lastQuery = "shared"
    /\ \E r \in SharedRels : r.props[1] = 2

\* C6: right after the degree annotation every node, of every label and
\* with or without relationships, carries an out-degree equal to the number
\* of relationships of any type that leave it and an in-degree equal to the
\* number that enter it; annotating again stores the same values.
C6_DegreesTotalAndExact ==
    lastQuery = "degrees" =>
        /\ DOMAIN out_degree = nodes
        /\ DOMAIN in_degree = nodes
        /\ \A n \in nodes :
              /\ out_degree[n] = Cardinality({r \in rels : r.src = n})
              /\ in_degree[n] = Cardinality({r \in rels : r.dst = n})
        /\ [n \in nodes |-> OutCount(n)] = out_degree
        /\ [n \in nodes |-> InCount(n)] = in_degree

\* C6 witness: right after the annotation a Client has 3 outgoing HAS_*
\* edges and out-degree 3 or more, a node without relationships has both
\* degrees 0, and a SHARED_IDENTIFIERS edge is among those counted.
C6_Witness ==
    /\ lastQuery = "degrees"
    /\ \E c \in Clients :
          /\ Cardinality({r \in HasRels : r.src = c}) = 3
          /\ out_degree[c] >= 3
    /\ \E n \in nodes : out_degree[n] = 0 /\ in_degree[n] = 0
    /\ SharedRels # {}

\* C7: the shared-identifier statistics of the final analysis count the SSN,
\* Phone and Email nodes held by at least 2 Clients and report the largest
\* holder count among them.
MultiplyHeld == {n \in Identifiers : Cardinality(Holders(n)) >= 2}
C7_StatsCoverAllIdentifierTypes ==
    pc = "done" =>
        /\ printed.shared_ssns = Cardinality(MultiplyHeld)
        /\ MultiplyHeld # {} =>
              printed.max_clients = Some(Max({Cardinality(Holders(n)) : n \in MultiplyHeld}))

\* C7, amended: the statistics cover the SSN nodes only.  The reported count
\* is the number of SSN nodes held by at least 2 Clients and the reported
\* maximum the largest holder count among them; with no multiply-held SSN
\* the count is 0 and the maximum is null.
MultiplyHeldSsns == {n \in MultiplyHeld : n.label = "SSN"}
C7_StatsCoverSsnsOnly ==
    pc = "done" =>
        /\ printed.shared_ssns = Cardinality(MultiplyHeldSsns)
        /\ printed.max_clients =
              IF MultiplyHeldSsns = {} THEN NULL
              ELSE Some(Max({Cardinality(Holders(n)) : n \in MultiplyHeldSsns}))

\* C7 witness: the analysis has run on a store where one SSN is held by 3
\* Clients and a phone by 2.
C7_Witness ==
    /\ pc = "done"
    /\ printed.shared_ssns = 1
    /\ printed.max_clients = Some(3)
    /\ \E n \in MultiplyHeld : n.label = "Phone"

\* C8: a client_has_ssn row that names a Client that does not exist creates
\* no edge and is left out of the reported number of created relationships.
C8_ReportedCountExcludesSkippedRows ==
    pc = "step15" => printed.has_ssn = CountType(rels, "HAS_SSN")

\* C9: when the script is started again after a failed batch, it goes on
\* past STEP 3 with the Transaction nodes of the committed batches kept.
TransactionNodes == {n \in nodes : n.label = "Transaction"}
C9_ResumeKeepsCommittedBatches ==
    [][(pc = "step3" /\ pc' = "step4") => TransactionNodes \subseteq TransactionNodes']_vars

\* C10: on the store the ring query of STEP 22 reads, whenever Clients A and
\* B share an identifier and B and C share one, the query has a row for each
\* of them, the three rings are the same set, and the set contains all three.
C10_RingsTransitive ==
    pc = "step22" =>
        LET rings == { <<c, FraudRingMembers(c)>> : c \in Clients }
            ring(c) == (CHOOSE p \in rings : p[1] = c)[2]
            rows == RingRows
        IN \A A \in Clients, B \in Clients, C \in Clients :
              (Shares(A, B) /\ Shares(B, C)) =>
                  /\ {A, B, C} \subseteq rows
                  /\ ring(A) = ring(B)
                  /\ ring(B) = ring(C)
                  /\ {A, B, C} \subseteq ring(A)

\* C10 witness: on the store the ring query reads, A and B share an
\* identifier, B and C share one, and A and C share none.
C10_Witness ==
    /\ pc = "step22"
    /\ \E A \in Clients, B \in Clients, C \in Clients :
          A # C /\ Shares(A, B) /\ Shares(B, C) /\ ~Shares(A, C)

\* The write steps of the script, STEP 4 to STEP 21, and what they write.
WriteSteps == {"step4", "step5", "step6", "step7", "step8", "step9", "step10",
               "step11", "step12", "step13", "step14", "step15", "step16",
               "step17", "step18", "step19", "step20", "step21"}

Database == <<nodes, nid, rels, out_degree, in_degree, constraints>>

\* What STEP 3 does on a non-empty database, given the set of answers that
\* count as 'yes': such an answer deletes every node and relationship and the
\* script goes on, any other ends the run with the database as it was.
\* Whenever STEP 3 goes on to STEP 4 the database holds no node, and the
\* database changes in no step but STEP 3 and the write steps.
GuardedBy(yes) ==
    /\ pc = "step3" =>
          /\ pc' = "step4" => (nodes' = {} /\ rels' = {})
          /\ (nodes # {} /\ response' \notin {Some(a) : a \in yes}) =>
                (pc' = "cancelled" /\ UNCHANGED Database)
          /\ (nodes # {} /\ response' \in {Some(a) : a \in yes}) =>
                (pc' = "step4" /\ nodes' = {} /\ rels' = {})
    /\ pc' \in WriteSteps => (pc \in WriteSteps \/ (pc = "step3" /\ nodes' = {}))
    /\ Database' # Database => pc \in WriteSteps \cup {"step3"}

\* C11 (as stated): no write step (STEP 4-21) runs unless the database held
\* zero nodes at the end of STEP 3; on a non-empty database any answer other
\* than 'yes' ends the run with every node and relationship unchanged, and
\* the answer 'yes' deletes all nodes and relationships before the first
\* import step.
C11_WritesOnlyOnEmptyDatabase == [][GuardedBy({"yes"})]_vars

\* C11 (amended): the same, where the answers that delete are those whose
\* lower-casing is 'yes' ('yes', 'YES'), and every other answer ends the run.
C11_WritesOnlyOnEmptyDatabaseAnyCase == [][GuardedBy({"yes", "YES"})]_vars

\* C11 witness: on a database left non-empty by an earlier run the operator
\* answered 'YES'; STEP 3 deleted every node and relationship and the script
\* is about to run its first write step.
C11_Witness ==
    /\ pc = "step4"
    /\ response = Some("YES")
    /\ constraints # {}
    /\ nodes = {}
    /\ rels = {}

\* The direct relationships: those the import steps create from the tables.
DirectTypes == HasTypes \cup {"PERFORMED", "FLAGGED_AS"}
DirectOut(n) == Cardinality({r \in rels : r.src = n /\ r.type \in DirectTypes})
DirectIn(n) == Cardinality({r \in rels : r.dst = n /\ r.type \in DirectTypes})
Incident(n) == Cardinality({r \in rels : r.src = n \/ r.dst = n})

DegreesAreDirect ==
    /\ DOMAIN out_degree = nodes
    /\ DOMAIN in_degree = nodes
    /\ \A n \in nodes :
          /\ out_degree[n] = DirectOut(n)
          /\ in_degree[n] = DirectIn(n)
          /\ (n.label = "Client" /\ \E r \in SharedRels : r.src = n \/ r.dst = n) =>
                 out_degree[n] + in_degree[n] < Incident(n)

\* C12: STEP 21 is entered from STEP 20 only and leaves the stored degrees
\* of every node as they were; at the end of a complete run each node's
\* stored out-degree and in-degree are its counts over the direct
\* relationships (HAS_SSN, HAS_PHONE, HAS_EMAIL, PERFORMED, FLAGGED_AS), so
\* a Client with a SHARED_IDENTIFIERS edge has stored degrees that add up
\* to less than the number of relationships incident to it.
C12_BuildLeavesDegreesDirect ==
    [][ /\ pc' = "step21" => pc = "step20"
        /\ pc = "step21" => UNCHANGED <<out_degree, in_degree>>
        /\ pc' = "done" => DegreesAreDirect' ]_vars

\* C12 witness: at the end of a complete run a Client with a
\* SHARED_IDENTIFIERS edge has stored out-degree 2 (its direct
\* relationships) and more relationships incident to it than that.
C12_Witness ==
    /\ pc = "done"
    /\ \E r \in SharedRels :
          /\ r.src \in DOMAIN out_degree
          /\ out_degree[r.src] = 2
          /\ out_degree[r.src] + in_degree[r.src] < Incident(r.src)

====
